---- MODULE Spec2Model ----
(***************************************************************************)
(* TaskFlow backend (backend/src/app.py): the task table and the request   *)
(* handlers get_tasks, get_task, create_task, update_task, delete_task and *)
(* health_check, each handler taken as one atomic step from the request    *)
(* validation FastAPI performs on its parameters to the response.          *)
(*                                                                         *)
(* Text is a tuple of one-character strings.  An Optional value is the     *)
(* empty tuple (None) or a one-element tuple holding the value.  A request *)
(* body or query string is a function whose domain is the set of fields    *)
(* the client supplied.                                                    *)
(***************************************************************************)
EXTENDS Integers, Sequences, FiniteSets, TLC

VARIABLES db, issued, now, deleted, last

vars == <<db, issued, now, deleted, last>>

\* ------------------------------------------------------------------ bounds
\* Number of uuid4() calls explored.
MaxTasks == 2
\* Largest clock reading explored.
MaxClock == 1

\* ------------------------------------------------------- program constants
TitleMinLen == 1
TitleMaxLen == 200
DescriptionMaxLen == 1000
AssigneeMaxLen == 100

\* ------------------------------------------------------------ text helpers
None == <<>>
Some(v) == <<v>>

Digits == {"0", "1", "2", "3", "4", "5", "6", "7", "8", "9"}
WhiteSpace == {" "}

Repeat(c, n) == [i \in 1..n |-> c]

RECURSIVE lstrip(_)
lstrip(s) == IF s # <<>> /\ Head(s) \in WhiteSpace THEN lstrip(Tail(s)) ELSE s

RECURSIVE rstrip(_)
rstrip(s) ==
    IF s # <<>> /\ s[Len(s)] \in WhiteSpace
    THEN rstrip(SubSeq(s, 1, Len(s) - 1))
    ELSE s

\* str.strip()
strip(s) == rstrip(lstrip(s))

\* Python truthiness of an Optional[str]: None and "" are both false.
Truthy(opt) == opt # None /\ Len(opt[1]) > 0

\* ------------------------------------------------------------------- enums
TaskStatus == {"TODO", "IN_PROGRESS", "DONE"}
TaskPriority == {"LOW", "MEDIUM", "HIGH"}

\* --------------------------------------------------------------- identifiers
HexDigit(n) == <<"1", "2", "3", "4", "5", "6", "7", "8", "9", "a", "b", "c", "d", "e", "f">>[n]

\* str(uuid.UUID): 8-4-4-4-12 hexadecimal digits, version nibble 4.
UuidStr(n) ==
    Repeat("0", 7) \o <<HexDigit(n)>> \o <<"-">> \o Repeat("0", 4) \o <<"-">>
        \o <<"4">> \o Repeat("0", 3) \o <<"-">> \o <<"8">> \o Repeat("0", 3)
        \o <<"-">> \o Repeat("0", 12)

\* A generator that repeats itself.
uuid4_repeating(n) == UuidStr(1)

\* uuid.uuid4(): a value no earlier call returned.
uuid4(n) == UuidStr(n + 1)

\* Ids handed out by the first n calls of uuid4().
IssuedIds(n) == {UuidStr(k) : k \in 1..n}

\* ------------------------------------------------------------------- store
TaskFields ==
    {"id", "title", "description", "status", "priority", "assignee",
     "due_date", "created_at", "updated_at"}

\* A row whose updated_at column is not filled in with the insert time.
TaskModel_stale(id, data, t) ==
    [id |-> id, title |-> data.title, description |-> data.description,
     status |-> data.status, priority |-> data.priority,
     assignee |-> data.assignee, due_date |-> data.due_date,
     created_at |-> t, updated_at |-> t - 1]

\* TaskModel(...) as inserted: the columns the handler passes, the two
\* timestamp columns filled in with the time of the insert.
TaskModel(id, data, t) ==
    [id |-> id, title |-> data.title, description |-> data.description,
     status |-> data.status, priority |-> data.priority,
     assignee |-> data.assignee, due_date |-> data.due_date,
     created_at |-> t, updated_at |-> t]

\* response_model=Task with from_attributes: the nine attributes of the row.
ToTask(row) == [f \in TaskFields |-> row[f]]

\* db.query(TaskModel).filter(TaskModel.id == key): the rows with that id.
QueryById(rows, key) == {r \in rows : r.id = key}

\* db.add(row); db.commit(): the primary key rejects a second row with the
\* same id, and a storage failure rejects any write.
CanCommitInsert(rows, row, storageOk) == storageOk /\ QueryById(rows, row.id) = {}

\* db.query(TaskModel).count()
Count(rows) == Cardinality(rows)

Response(code, body, commit) == [code |-> code, body |-> body, commit |-> commit]

Result(rows, n, clock, resp) == [db |-> rows, issued |-> n, now |-> clock, resp |-> resp]

\* ------------------------------------------------------- request validation
Has(body, f) == f \in DOMAIN body

\* Optional[str] = Field(None, max_length=n)
OptTextValid(body, f, n) == Has(body, f) => (body[f] = None \/ Len(body[f][1]) <= n)

\* class TaskCreate: what pydantic accepts as a request body.
TaskCreateValid(body) ==
    /\ Has(body, "title")
    /\ Len(body.title) >= TitleMinLen
    /\ Len(body.title) <= TitleMaxLen
    /\ OptTextValid(body, "description", DescriptionMaxLen)
    /\ Has(body, "status") => body.status \in TaskStatus
    /\ Has(body, "priority") => body.priority \in TaskPriority
    /\ OptTextValid(body, "assignee", AssigneeMaxLen)

\* Defaults swapped for other members of the enumerations.
TaskCreateData_defaults(body) ==
    [title |-> body.title,
     description |-> IF Has(body, "description") THEN body.description ELSE None,
     status |-> IF Has(body, "status") THEN body.status ELSE "DONE",
     priority |-> IF Has(body, "priority") THEN body.priority ELSE "LOW",
     assignee |-> IF Has(body, "assignee") THEN body.assignee ELSE None,
     due_date |-> IF Has(body, "due_date") THEN body.due_date ELSE None]

\* class TaskCreate: the parsed model, defaults filled in for unset fields.
TaskCreateData(body) ==
    [title |-> body.title,
     description |-> IF Has(body, "description") THEN body.description ELSE None,
     status |-> IF Has(body, "status") THEN body.status ELSE "TODO",
     priority |-> IF Has(body, "priority") THEN body.priority ELSE "MEDIUM",
     assignee |-> IF Has(body, "assignee") THEN body.assignee ELSE None,
     due_date |-> IF Has(body, "due_date") THEN body.due_date ELSE None]

\* class TaskUpdate: what pydantic accepts as a request body.
TaskUpdateValid(body) ==
    /\ Has(body, "title") =>
          (Len(body.title) >= TitleMinLen /\ Len(body.title) <= TitleMaxLen)
    /\ OptTextValid(body, "description", DescriptionMaxLen)
    /\ Has(body, "status") => body.status \in TaskStatus
    /\ Has(body, "priority") => body.priority \in TaskPriority
    /\ OptTextValid(body, "assignee", AssigneeMaxLen)

\* Query parameters of GET /tasks.
FiltersValid(q) ==
    /\ Has(q, "status") => q.status \in TaskStatus
    /\ Has(q, "priority") => q.priority \in TaskPriority

\* Path parameter declared str, as in get_task and delete_task.
IsIntPath_str(path) == TRUE

\* Path parameter declared int: a decimal digit string.
IsIntPath(path) == path # <<>> /\ \A i \in 1..Len(path) : path[i] \in Digits

\* str(int(path)): leading zeros dropped.
RECURSIVE IntText(_)
IntText(path) ==
    IF Len(path) > 1 /\ Head(path) = "0" THEN IntText(Tail(path)) ELSE path

\* ----------------------------------------------------------------- handlers
\* GET /tasks
get_tasks(rows, q) ==
    IF ~FiltersValid(q)
    THEN Response(422, None, "none")
    ELSE LET status == IF Has(q, "status") THEN Some(q.status) ELSE None
             priority == IF Has(q, "priority") THEN Some(q.priority) ELSE None
             assignee == IF Has(q, "assignee") THEN Some(q.assignee) ELSE None
             query ==
                 {r \in rows :
                     /\ status # None => r.status = status[1]
                     /\ priority # None => r.priority = priority[1]
                     /\ Truthy(assignee) => r.assignee = assignee}
         IN  Response(200, {ToTask(r) : r \in query}, "none")

\* GET /tasks/{task_id}
get_task(rows, task_id) ==
    LET task == QueryById(rows, task_id)
    IN  IF task = {}
        THEN Response(404, None, "none")
        ELSE Response(200, ToTask(CHOOSE r \in task : TRUE), "none")

\* POST /tasks without the check of the stripped title.
create_task_unstripped(rows, n, clock, t, body, storageOk) ==
    IF ~TaskCreateValid(body)
    THEN Result(rows, n, clock, Response(422, None, "none"))
    ELSE LET task_data == TaskCreateData(body)
             task_id == uuid4(n)
             db_task == TaskModel(task_id, task_data, t)
         IN  IF CanCommitInsert(rows, db_task, storageOk)
             THEN Result(rows \cup {db_task}, n + 1, t,
                         Response(201, ToTask(db_task), "ok"))
             ELSE Result(rows, n + 1, t, Response(500, None, "failed"))

\* POST /tasks keeping the added row when the commit fails.
create_task_no_rollback(rows, n, clock, t, body, storageOk) ==
    IF ~TaskCreateValid(body)
    THEN Result(rows, n, clock, Response(422, None, "none"))
    ELSE LET task_data == TaskCreateData(body)
         IN  IF task_data.title = <<>> \/ strip(task_data.title) = <<>>
             THEN Result(rows, n, clock, Response(422, None, "none"))
             ELSE LET task_id == uuid4(n)
                      db_task == TaskModel(task_id, task_data, t)
                  IN  IF CanCommitInsert(rows, db_task, storageOk)
                      THEN Result(rows \cup {db_task}, n + 1, t,
                                  Response(201, ToTask(db_task), "ok"))
                      ELSE Result(rows \cup {db_task}, n + 1, t,
                                  Response(500, None, "failed"))

\* POST /tasks; clock is the last clock reading, t what datetime.now returns.
create_task(rows, n, clock, t, body, storageOk) ==
    IF ~TaskCreateValid(body)
    THEN Result(rows, n, clock, Response(422, None, "none"))
    ELSE LET task_data == TaskCreateData(body)
         IN  IF task_data.title = <<>> \/ strip(task_data.title) = <<>>
             THEN Result(rows, n, clock, Response(422, None, "none"))
             ELSE LET task_id == uuid4(n)
                      db_task == TaskModel(task_id, task_data, t)
                  IN  IF CanCommitInsert(rows, db_task, storageOk)
                      THEN Result(rows \cup {db_task}, n + 1, t,
                                  Response(201, ToTask(db_task), "ok"))
                      ELSE Result(rows, n + 1, t, Response(500, None, "failed"))

\* PUT /tasks/{task_id}
update_task(rows, path, body) ==
    IF ~IsIntPath(path) \/ ~TaskUpdateValid(body)
    THEN Response(422, None, "none")
    ELSE LET tasks_db == QueryById(rows, IntText(path))
         IN  IF tasks_db = {}
             THEN Response(404, None, "none")
             \* "task_id not in tasks_db" on a TaskModel raises TypeError,
             \* so nothing after line 258 runs.
             ELSE Response(500, None, "none")

\* DELETE /tasks/{task_id} that answers 204 without removing the row.
delete_task_soft(rows, task_id, storageOk) ==
    LET task == QueryById(rows, task_id)
    IN  IF task = {}
        THEN [db |-> rows, resp |-> Response(404, None, "none")]
        ELSE IF storageOk
             THEN [db |-> rows, resp |-> Response(204, None, "ok")]
             ELSE [db |-> rows, resp |-> Response(500, None, "failed")]

\* DELETE /tasks/{task_id}
delete_task(rows, task_id, storageOk) ==
    LET task == QueryById(rows, task_id)
    IN  IF task = {}
        THEN [db |-> rows, resp |-> Response(404, None, "none")]
        ELSE IF storageOk
             THEN [db |-> rows \ task, resp |-> Response(204, None, "ok")]
             ELSE [db |-> rows, resp |-> Response(500, None, "failed")]

\* GET /health
health_check(rows, dbUp) ==
    IF dbUp
    THEN Response(200, [status |-> "healthy", database |-> "connected",
                        tasks_count |-> Count(rows)], "none")
    ELSE Response(200, [status |-> "unhealthy", database |-> "error"], "none")

\* ----------------------------------------------------------------- requests
Bob == <<"b", "o", "b">>

ValidCreateBodies ==
    {[title |-> <<"a">>],
     [title |-> <<" ", "b">>, description |-> Some(<<"d">>), status |-> "DONE",
      priority |-> "HIGH", assignee |-> Some(Bob), due_date |-> Some(1)],
     [title |-> <<"a">>, status |-> "DONE", assignee |-> Some(<<>>)]}

InvalidCreateBodies ==
    {<<>>,
     [title |-> <<>>],
     [title |-> <<" ", " ", " ">>],
     [title |-> Repeat("x", TitleMaxLen + 1)],
     [title |-> <<"a">>, status |-> "BOGUS"],
     [title |-> <<"a">>, assignee |-> Some(Repeat("x", AssigneeMaxLen + 1))]}

CreateBodies == ValidCreateBodies \cup InvalidCreateBodies

UpdateBodies ==
    {<<>>,
     [title |-> <<>>],
     [title |-> <<" ", " ", " ">>],
     [status |-> "DONE"],
     [title |-> <<"c">>, assignee |-> None, priority |-> "LOW"],
     [priority |-> "BOGUS"]}

\* Path segments a client sends: every id uuid4 can return, and an integer.
Paths == IssuedIds(MaxTasks) \cup {<<"0", "7">>}

Opt(S) == {None} \cup {Some(x) : x \in S}

\* A query string with the parameter f present when opt holds a value.
Param(f, opt) == IF opt = None THEN <<>> ELSE f :> opt[1]

Queries ==
    {Param("status", s) @@ Param("priority", p) @@ Param("assignee", a) :
        s \in Opt({"DONE", "BOGUS"}),
        p \in Opt({"HIGH"}),
        a \in Opt({<<>>, Bob})}

\* ------------------------------------------------------------ state machine
Init ==
    /\ db = {}
    /\ issued = 0
    /\ now = 0
    /\ deleted = {}
    /\ last = [op |-> "start", req |-> None, code |-> 0, body |-> None,
               commit |-> "none"]

Reply(op, req, resp) ==
    [op |-> op, req |-> req, code |-> resp.code, body |-> resp.body,
     commit |-> resp.commit]

GetTasks ==
    \E q \in Queries :
        /\ last' = Reply("get_tasks", [query |-> q], get_tasks(db, q))
        /\ UNCHANGED <<db, issued, now, deleted>>

GetTask ==
    \E task_id \in Paths :
        /\ last' = Reply("get_task", [task_id |-> task_id], get_task(db, task_id))
        /\ UNCHANGED <<db, issued, now, deleted>>

CreateTask ==
    \E t \in now..MaxClock, body \in CreateBodies, storageOk \in BOOLEAN :
        LET r == create_task(db, issued, now, t, body, storageOk)
        IN  /\ r.issued <= MaxTasks
            \* a request rejected before the clock and the store are
            \* consulted is the same request whatever they would have said
            /\ r.resp.commit = "none" => (t = now /\ storageOk)
            /\ now' = r.now
            /\ db' = r.db
            /\ issued' = r.issued
            /\ last' = Reply("create_task", [body |-> body, storageOk |-> storageOk], r.resp)
            /\ UNCHANGED deleted

UpdateTask ==
    \E task_id \in Paths, body \in UpdateBodies :
        /\ last' = Reply("update_task", [task_id |-> task_id, body |-> body],
                         update_task(db, task_id, body))
        /\ UNCHANGED <<db, issued, now, deleted>>

DeleteTask ==
    \E task_id \in Paths, storageOk \in BOOLEAN :
        LET r == delete_task(db, task_id, storageOk)
        IN  /\ r.resp.commit = "none" => storageOk
            /\ db' = r.db
            /\ deleted' = IF r.resp.code = 204 THEN deleted \cup {task_id} ELSE deleted
            /\ last' = Reply("delete_task", [task_id |-> task_id, storageOk |-> storageOk], r.resp)
            /\ UNCHANGED <<issued, now>>

HealthCheck ==
    \E dbUp \in BOOLEAN :
        /\ last' = Reply("health_check", None, health_check(db, dbUp))
        /\ UNCHANGED <<db, issued, now, deleted>>

Next ==
    \/ GetTasks
    \/ GetTask
    \/ CreateTask
    \/ UpdateTask
    \/ DeleteTask
    \/ HealthCheck

Spec == Init /\ [][Next]_vars

\* ------------------------------------------------------------------ claims
Ids(rows) == {r.id : r \in rows}

Row(rows, id) == CHOOSE r \in rows : r.id = id

BlankTitle(body) == Has(body, "title") /\ strip(body.title) = <<>>

\* The row update(id, body) is meant to leave: supplied fields replaced,
\* updated_at refreshed to u, everything else kept.
Merged(row, body, u) ==
    [f \in TaskFields |->
        IF f = "updated_at" THEN u
        ELSE IF Has(body, f) THEN body[f] ELSE row[f]]

\* C1: update(id, partial_input) on a stored task, with a partial input that
\* passes validation and does not blank the title, succeeds with 200, returns
\* the full updated task, and leaves in the store the merge of the old row
\* and the supplied fields: only supplied fields and updated_at differ.
C1_UpdateMerges ==
    [][(/\ last'.op = "update_task"
        /\ last'.req.task_id \in Ids(db)
        /\ TaskUpdateValid(last'.req.body)
        /\ ~BlankTitle(last'.req.body))
       => \E u \in now..MaxClock :
            LET old == Row(db, last'.req.task_id)
                new == Merged(old, last'.req.body, u)
            IN  /\ last'.code = 200
                /\ last'.body = ToTask(new)
                /\ db' = (db \ {old}) \cup {new}]_vars

\* C2: update(id, {title: t}) on a stored task with t empty or whitespace-only
\* is answered 422 and the store is unchanged in every field of every row.
C2_BlankTitleUpdateRejected ==
    [][(/\ last'.op = "update_task"
        /\ last'.req.task_id \in Ids(db)
        /\ BlankTitle(last'.req.body))
       => (last'.code = 422 /\ db' = db)]_vars

C2_Witness ==
    /\ last.op = "update_task"
    /\ last.req.task_id \in Ids(db)
    /\ last.req.body = [title |-> <<" ", " ", " ">>]
    /\ last.code = 422

\* C3: create with a missing, empty or whitespace-only title is answered 422
\* and persists nothing: the stored tasks and count() are as before the call.
C3_BlankTitleCreateRejected ==
    [][(/\ last'.op = "create_task"
        /\ (~Has(last'.req.body, "title") \/ BlankTitle(last'.req.body)))
       => /\ last'.code = 422
          /\ db' = db
          /\ health_check(db', TRUE).body.tasks_count
               = health_check(db, TRUE).body.tasks_count]_vars

C3_Witness ==
    /\ last.op = "create_task"
    /\ last.req.body = [title |-> <<" ", " ", " ">>]
    /\ last.code = 422
    /\ Count(db) = 1

\* C4: a successful create returns an id no earlier create returned (neither
\* the id of a stored task nor of a task since deleted); every id identifies
\* at most one stored task; no update changes the id of a task.
C4_FreshUniqueId ==
    [][/\ (last'.op = "create_task" /\ last'.code = 201)
          => /\ last'.body.id \notin Ids(db) \cup deleted
             /\ last'.body.id \in Ids(db')
       /\ \A r1, r2 \in db' : r1.id = r2.id => r1 = r2
       /\ last'.op = "update_task" => Ids(db') = Ids(db)]_vars

C4_Witness ==
    /\ last.op = "create_task"
    /\ last.code = 201
    /\ deleted # {}
    /\ last.body.id \in Ids(db)

\* C5: get(create(X).id) right after a successful create(X) answers 200 with
\* the task create returned, whose title, description, assignee and due_date
\* are the supplied ones, status the supplied one or TODO, priority the
\* supplied one or MEDIUM; and any successful get returns the stored row.
C5_GetAfterCreate ==
    [][/\ (last'.op = "create_task" /\ last'.code = 201)
          => LET X == last'.req.body
                 created == last'.body
                 got == get_task(db', created.id)
             IN  /\ got.code = 200
                 /\ got.body = created
                 /\ created.title = X.title
                 /\ created.description
                      = (IF Has(X, "description") THEN X.description ELSE None)
                 /\ created.assignee
                      = (IF Has(X, "assignee") THEN X.assignee ELSE None)
                 /\ created.due_date
                      = (IF Has(X, "due_date") THEN X.due_date ELSE None)
                 /\ created.status
                      = (IF Has(X, "status") THEN X.status ELSE "TODO")
                 /\ created.priority
                      = (IF Has(X, "priority") THEN X.priority ELSE "MEDIUM")
       /\ (last'.op = "get_task" /\ last'.code = 200)
          => last'.body \in {ToTask(r) : r \in QueryById(db, last'.req.task_id)}]_vars

C5_Witness ==
    /\ last.op = "get_task"
    /\ last.code = 200
    /\ last.body.status = "TODO"
    /\ last.body.priority = "MEDIUM"
    /\ last.body.title = <<"a">>
    /\ \E r \in db : r.title = <<" ", "b">> /\ r.due_date = Some(1)

\* C6: a successful delete(id) removes the task with that id and no other,
\* and every later get(id) is answered 404: a deleted id is never stored again.
C6_DeleteIsPermanent ==
    [][/\ (last'.op = "delete_task" /\ last'.code = 204)
          => /\ last'.req.task_id \in Ids(db)
             /\ db' = db \ QueryById(db, last'.req.task_id)
       /\ (last'.op = "get_task" /\ last'.req.task_id \in deleted')
          => last'.code = 404
       /\ deleted' \cap Ids(db') = {}]_vars

C6_Witness ==
    /\ last.op = "get_task"
    /\ last.req.task_id \in deleted
    /\ last.code = 404
    /\ db # {}

\* The rows a query string asks for: equality on every supplied parameter.
Matches(row, q) ==
    /\ Has(q, "status") => row.status = q.status
    /\ Has(q, "priority") => row.priority = q.priority
    /\ Has(q, "assignee") => row.assignee = Some(q.assignee)

\* C7: list(filters) returns exactly the stored tasks matching every supplied
\* filter, for every combination of supplied and omitted filters and every
\* supplied value, the empty-string assignee included, and leaves the store
\* as it was.
C7_ListExactlyMatching ==
    [][(last'.op = "get_tasks" /\ FiltersValid(last'.req.query))
       => /\ last'.code = 200
          /\ last'.body = {ToTask(r) : r \in {x \in db : Matches(x, last'.req.query)}}
          /\ db' = db]_vars

C9_AbsentIdNotFound ==
    [][/\ (/\ last'.op \in {"get_task", "update_task", "delete_task"}
           /\ last'.req.task_id \notin Ids(db)
           /\ last'.op = "update_task" => TaskUpdateValid(last'.req.body))
          => (last'.code = 404 /\ db' = db)
       /\ (last'.op = "update_task" /\ last'.code = 404)
          => last'.req.task_id \notin Ids(db)]_vars

\* C10: when the commit of a create or a delete fails, the answer is 500 and
\* the store is as before the request; an update leaves nothing half-applied.
C10_FailedCommitLeavesStore ==
    [][/\ (/\ last'.op = "create_task"
           /\ TaskCreateValid(last'.req.body)
           /\ ~BlankTitle(last'.req.body)
           /\ ~last'.req.storageOk)
          => (last'.code = 500 /\ db' = db)
       /\ (/\ last'.op = "delete_task"
           /\ last'.req.task_id \in Ids(db)
           /\ ~last'.req.storageOk)
          => (last'.code = 500 /\ db' = db)
       /\ (last'.op = "update_task" /\ last'.code # 200) => db' = db]_vars

C10_Witness ==
    /\ last.op = "delete_task"
    /\ last.code = 500
    /\ last.req.task_id \in Ids(db)
    /\ Count(db) = 2

====
